---- MODULE Spec2Model ----
(***************************************************************************)
(* A model of the weather front-end of src/app.py: the request handler     *)
(* index, the geocoding client geocode_city, the memoized weather client   *)
(* get_weather_data and the SimpleCache store behind @cache.memoize().     *)
(*                                                                         *)
(* Python values are modelled by tagged records: None, Str(s) and          *)
(* Dict(items, origin), where items is the mapping of the dict (a TLA+     *)
(* function from key strings) and origin is a history tag naming the       *)
(* outbound call that produced the dict (it is not a key of the dict).     *)
(* A decoded JSON object that the code only reads is a plain TLA+ record;  *)
(* "k in d" is k \in DOMAIN d and d[k] on a missing key raises KeyError.   *)
(***************************************************************************)
EXTENDS Integers, Sequences, FiniteSets, TLC

VARIABLES time, cache, verCtr, pc, loc, lastFetch, served

vars == <<time, cache, verCtr, pc, loc, lastFetch, served>>

(***************************************************************************)
(* Bounds of the model.                                                    *)
(***************************************************************************)
\* Spec and SpecRequest: the workers serving requests at once, the requests
\* received and the time that passes.
NumWorkers == 2
MaxRequests == 2
MaxTime == 150
\* SpecCache: the calls made one after the other and the time that passes.
MaxCalls == 3
MaxCacheTime == 450

Workers == 1..NumWorkers

(***************************************************************************)
(* Program constants.                                                      *)
(***************************************************************************)
CACHE_DEFAULT_TIMEOUT == 300

\* The clock advances in steps that land just before, on, and half way to
\* the expiry instant of an entry.
TickSteps == {CACHE_DEFAULT_TIMEOUT \div 2, CACHE_DEFAULT_TIMEOUT - 1}

(***************************************************************************)
(* Python values.                                                          *)
(***************************************************************************)
None == [py |-> "None"]
Str(s) == [py |-> "str", s |-> s]
Dict(items, origin) == [py |-> "dict", items |-> items, origin |-> origin]

TruthyNotNone(v) == v.py # "None"

\* bool(v) as the "if v:" tests of the code take it.
Truthy(v) ==
  CASE v.py = "None" -> FALSE
    [] v.py = "str" -> v.s # ""
    [] v.py = "dict" -> DOMAIN v.items # {}

\* The outcome of a call: a returned value or a raised exception.
Return(v) == [raised |-> FALSE, value |-> v]
Raise(e) == [raised |-> TRUE, exc |-> e]

\* d[k] = v on a dict (index, line 117).
SetItem(items, k, v) ==
  [x \in DOMAIN items \cup {k} |-> IF x = k THEN v ELSE items[x]]

(***************************************************************************)
(* The requests the model sends: the location and units query parameters   *)
(* (None when the parameter is missing).                                   *)
(***************************************************************************)
LocationParams == {None, Str(""), Str("Paris"), Str("Nowhereville")}
UnitsParams == {None, Str("fahrenheit")}

(***************************************************************************)
(* What the geocoding service may answer.                                  *)
(***************************************************************************)
ParisFull ==
  [name |-> "Paris", latitude |-> 48, longitude |-> 2,
   country |-> "France", admin1 |-> "Ile-de-France"]
ParisNoAdmin ==
  [name |-> "Paris", latitude |-> 48, longitude |-> 2, country |-> "France"]
ParisNoCountry ==
  [name |-> "Paris", latitude |-> 48, longitude |-> 2, admin1 |-> "Ile-de-France"]
LyonFull ==
  [name |-> "Lyon", latitude |-> 45, longitude |-> 4,
   country |-> "France", admin1 |-> "Auvergne-Rhone-Alpes"]
NoLatitude == [name |-> "Paris", longitude |-> 2, country |-> "France"]
NoLongitude == [name |-> "Paris", latitude |-> 48, country |-> "France"]
NoName == [latitude |-> 48, longitude |-> 2, country |-> "France"]

GeoResults ==
  {ParisFull, ParisNoAdmin, ParisNoCountry, LyonFull, NoLatitude, NoLongitude, NoName}

\* A response of requests.get: the call itself fails, the status is not a
\* success (raise_for_status raises), the body is not JSON (json() raises),
\* or the body decodes to json.
ConnectionError == [kind |-> "ConnectionError"]
HTTPError == [kind |-> "HTTPError"]
BadBody == [kind |-> "OK", decodable |-> FALSE]
Body(json) == [kind |-> "OK", decodable |-> TRUE, json |-> json]

GeoResponses ==
  {ConnectionError, HTTPError, BadBody,
   Body([generationtime_ms |-> 1]), Body([results |-> <<>>])}
  \cup {Body([results |-> <<r>>]) : r \in GeoResults}

(***************************************************************************)
(* What the weather service may answer.  A decoded body becomes a dict     *)
(* whose origin tag records the parameters of the call and the time of     *)
(* the answer.                                                             *)
(***************************************************************************)
PytzZones == {"Europe/Paris", "UTC"}

CurrentWeather == [temperature |-> 20, weathercode |-> 3]
Daily == [weathercode |-> <<3>>, temperature_2m_max |-> <<22>>]

ForecastShapes ==
  {[timezone |-> "Europe/Paris", current_weather |-> CurrentWeather, daily |-> Daily],
   [current_weather |-> CurrentWeather, daily |-> Daily],
   [timezone |-> "Mars/Olympus", current_weather |-> CurrentWeather, daily |-> Daily],
   [timezone |-> "Europe/Paris", daily |-> Daily],
   [timezone |-> "Europe/Paris", current_weather |-> CurrentWeather],
   <<>>}

WeatherAnswers(shapes) ==
  {ConnectionError, HTTPError, BadBody} \cup {Body(s) : s \in shapes}

WeatherResponseTo(params, t, answer) ==
  IF answer.kind = "OK" /\ answer.decodable
    THEN Body(Dict(answer.json, [params |-> params, at |-> t]))
    ELSE answer

(***************************************************************************)
(* geocode_city (lines 59-80).  geocode_try is the body of the try block,  *)
(* in the order the code evaluates it; geocode_city adds the handler       *)
(* "except Exception", which logs and returns None.                        *)
(***************************************************************************)
Location(lat, lon, location_name) ==
  [py |-> "dict",
   items |-> [latitude |-> lat, longitude |-> lon, location_name |-> location_name]]

geocode_try(city_name, resp) ==
  IF resp.kind = "ConnectionError" THEN Raise("ConnectionError")
  ELSE IF resp.kind = "HTTPError" THEN Raise("HTTPError")
  ELSE IF ~resp.decodable THEN Raise("JSONDecodeError")
  ELSE LET data == resp.json IN
    IF "results" \notin DOMAIN data THEN Return(None)
    ELSE IF Len(data.results) = 0 THEN Raise("IndexError")
    ELSE LET result == data.results[1] IN
      IF "latitude" \notin DOMAIN result THEN Raise("KeyError")
      ELSE IF "longitude" \notin DOMAIN result THEN Raise("KeyError")
      ELSE IF "name" \notin DOMAIN result THEN Raise("KeyError")
      \* result.get('admin1', result['country']): the default is an argument
      \* of get, so result['country'] is evaluated before get is called.
      ELSE IF "country" \notin DOMAIN result THEN Raise("KeyError")
      ELSE Return(Location(result.latitude, result.longitude,
                           result.name \o ", " \o
                             (IF "admin1" \in DOMAIN result
                                THEN result.admin1 ELSE result.country)))

geocode_city_unguarded(city_name, resp) == geocode_try(city_name, resp)

geocode_city_placeholder(city_name, resp) ==
  IF geocode_try(city_name, resp).raised
    THEN Return(Location(0, 0, city_name))
    ELSE geocode_try(city_name, resp)

geocode_city(city_name, resp) ==
  IF geocode_try(city_name, resp).raised
    THEN Return(None)
    ELSE geocode_try(city_name, resp)

(***************************************************************************)
(* get_weather_data (lines 84-101), the function @cache.memoize() wraps.   *)
(***************************************************************************)
WeatherParams(lat, lon, units) ==
  [latitude |-> lat, longitude |-> lon, current_weather |-> TRUE,
   timezone |-> "auto", temperature_unit |-> units]

get_weather_data_try(resp) ==
  IF resp.kind = "ConnectionError" THEN Raise("ConnectionError")
  ELSE IF resp.kind = "HTTPError" THEN Raise("HTTPError")
  ELSE IF ~resp.decodable THEN Raise("JSONDecodeError")
  ELSE Return(resp.json)

get_weather_data_unguarded(resp) == get_weather_data_try(resp)

get_weather_data(resp) ==
  IF get_weather_data_try(resp).raised
    THEN Return(None)
    ELSE get_weather_data_try(resp)

(***************************************************************************)
(* The cache of line 11: a SimpleCache whose entries are (expires, value)  *)
(* pairs, with CACHE_DEFAULT_TIMEOUT as the timeout of every set.  An      *)
(* entry is served while expires > time().  Whether the store keeps the    *)
(* caller's object or a copy of it is decided by the cache library, whose  *)
(* code is not part of src/: the write of line 117 into the object index   *)
(* holds is not followed into the store, and the properties below are      *)
(* stated on what that write leaves alone (the origin of a payload, the    *)
(* expiry of an entry).                                                    *)
(***************************************************************************)
SimpleCacheGet_NoExpiry(c, key, t) ==
  IF key \in DOMAIN c THEN c[key].value ELSE None

SimpleCacheGet(c, key, t) ==
  IF key \in DOMAIN c /\ (c[key].expires = 0 \/ c[key].expires > t)
    THEN c[key].value
    ELSE None

SimpleCacheSet(c, key, value, t) ==
  [k \in DOMAIN c \cup {key} |->
     IF k = key
       THEN [expires |-> t + CACHE_DEFAULT_TIMEOUT, value |-> value]
       ELSE c[k]]

(***************************************************************************)
(* @cache.memoize() (line 83).  The key of a call is built from the        *)
(* function's name, the function's version hash and the arguments.  The    *)
(* version hash is itself an entry of the cache, set with the default      *)
(* timeout; when it is missing or expired a fresh hash is drawn and        *)
(* stored.  n numbers the hashes drawn so far.                             *)
(***************************************************************************)
MemVerKey == <<"get_weather_data", "memver">>

VersionHash(n) == Str(ToString(n))

memoize_version(c, t, n) ==
  IF SimpleCacheGet(c, MemVerKey, t) = None
    THEN [cache |-> SimpleCacheSet(c, MemVerKey, VersionHash(n + 1), t),
          version |-> VersionHash(n + 1), drawn |-> n + 1]
    ELSE [cache |-> c, version |-> SimpleCacheGet(c, MemVerKey, t), drawn |-> n]

make_cache_key_no_units(version, lat, lon, units) ==
  <<"get_weather_data", version.s, lat, lon, "">>

make_cache_key(version, lat, lon, units) ==
  <<"get_weather_data", version.s, lat, lon, units>>

(***************************************************************************)
(* index (lines 105-138), after the calls it makes.                        *)
(***************************************************************************)
ServerLocal == "server-local"

\* Lines 124-127: the zone the display time is taken in, once
\* pytz.timezone has accepted the forecast's timezone.
display_zone_server(weather_data) == ServerLocal

display_zone(weather_data) ==
  IF Truthy(weather_data) /\ "timezone" \in DOMAIN weather_data.items
    THEN weather_data.items.timezone
    ELSE ServerLocal

\* Lines 123-138: the display time and the render context.  The keyword
\* arguments of render_template are evaluated in order: now was computed
\* before, then current, then daily.
index_render(weather_data, error, location_query, units, t) ==
  LET present == Truthy(weather_data)
      zoned == present /\ "timezone" \in DOMAIN weather_data.items
  IN IF zoned /\ weather_data.items.timezone \notin PytzZones
       THEN Raise("UnknownTimeZoneError")
     ELSE IF present /\ "current_weather" \notin DOMAIN weather_data.items
       THEN Raise("KeyError")
     ELSE IF present /\ "daily" \notin DOMAIN weather_data.items
       THEN Raise("KeyError")
     ELSE Return(
       [weather_data |-> weather_data,
        error |-> error,
        location_query |-> location_query,
        units |-> units,
        now |-> [zone |-> display_zone(weather_data), t |-> t],
        current |-> IF present THEN weather_data.items.current_weather ELSE None,
        daily |-> IF present THEN weather_data.items.daily ELSE None])

index_not_found_unquoted(location_query, units, t) ==
  index_render(None,
               Str("Could not find " \o location_query.s \o ". Try another city."),
               location_query, units, t)

\* Lines 120-121: geocode_city returned a falsy value.
index_not_found(location_query, units, t) ==
  index_render(None,
               Str("Could not find '" \o location_query.s \o "'. Try another city."),
               location_query, units, t)

\* Lines 116-117: the object get_weather_data returned, as index holds it
\* once the display name of this request's geocoding is written into it.
attach_location_name(rv, geo) ==
  IF Truthy(rv)
    THEN [rv EXCEPT !.items = SetItem(rv.items, "locationName", geo.items.location_name)]
    ELSE rv

\* Lines 115-119: get_weather_data returned rv.
index_after_weather(location_query, units, geo, rv, t) ==
  IF Truthy(rv)
    THEN index_render(attach_location_name(rv, geo), None, location_query, units, t)
    ELSE index_render(
           rv,
           Str("Could not fetch weather for '" \o geo.items.location_name \o "'."),
           location_query, units, t)

(***************************************************************************)
(* State.                                                                  *)
(*   time       the wall clock, in seconds                                 *)
(*   cache      the SimpleCache store: key -> [expires, value]             *)
(*   verCtr     the number of version hashes drawn so far                  *)
(*   pc, loc    per worker: where its request stands, and the locals of    *)
(*              index for that request with a record of the calls it made  *)
(*   lastFetch  history: per argument tuple, the time and the result of    *)
(*              the last outbound weather call that returned, and the      *)
(*              number of cache hits served since                          *)
(*   served     the number of requests received so far                     *)
(***************************************************************************)
NoArgs == <<>>

LocInit ==
  [location_query |-> None, unitsParam |-> None, units |-> "metric",
   geoCalls |-> 0, geoResp |-> None, geoOut |-> None, geo |-> None,
   args |-> NoArgs, cache_key |-> NoArgs,
   wxInvoked |-> 0, wxCalls |-> 0, wxParams |-> None, wxOut |-> None,
   prev |-> None, callTime |-> 0, returnTime |-> 0,
   result |-> None]

Init ==
  /\ time = 0
  /\ cache = <<>>
  /\ verCtr = 0
  /\ pc = [r \in Workers |-> "idle"]
  /\ loc = [r \in Workers |-> LocInit]
  /\ lastFetch = <<>>
  /\ served = 0

\* Line 107: request.args.get("units", "metric").
request_units_whitelisted(u) ==
  IF u = None \/ u.s \notin {"metric", "imperial"} THEN "metric" ELSE u.s

request_units(u) == IF u = None THEN "metric" ELSE u.s

\* Lines 106-112: a request arrives at a free worker (the model receives
\* at most maxRequests of them).  Without a location
\* (missing or empty) index goes straight to the render; otherwise it calls
\* geocode_city, which sends its request (line 62).
Request(r, q, u, maxRequests) ==
  /\ pc[r] \in {"idle", "done"}
  /\ served < maxRequests
  /\ served' = served + 1
  /\ LET units == request_units(u)
         fresh == [LocInit EXCEPT !.location_query = q, !.unitsParam = u,
                                  !.units = units]
     IN IF Truthy(q)
          THEN /\ loc' = [loc EXCEPT ![r] = [fresh EXCEPT !.geoCalls = 1]]
               /\ pc' = [pc EXCEPT ![r] = "geocode"]
          ELSE /\ loc' = [loc EXCEPT ![r] =
                            [fresh EXCEPT !.result = index_render(None, None, q, units, time)]]
               /\ pc' = [pc EXCEPT ![r] = "done"]
  /\ UNCHANGED <<time, cache, verCtr, lastFetch>>

\* Lines 68-80 and 113-115, 120-121: the geocoding service answers.  When
\* geocode_city returns a location, index calls the memoized
\* get_weather_data: the wrapper builds the key (drawing a version hash when
\* none is live) and reads the cache; a value other than None is returned
\* as the result (lines 116-138 follow), anything else sends the request of
\* line 96.
GeocodeResponse(r, resp) ==
  /\ pc[r] = "geocode"
  /\ LET l == loc[r]
         out == geocode_city(l.location_query.s, resp)
         l1 == [l EXCEPT !.geoResp = resp, !.geoOut = out]
     IN IF out.raised
          THEN /\ loc' = [loc EXCEPT ![r] = [l1 EXCEPT !.result = out]]
               /\ pc' = [pc EXCEPT ![r] = "done"]
               /\ UNCHANGED <<cache, verCtr, lastFetch>>
        ELSE IF ~Truthy(out.value)
          THEN /\ loc' = [loc EXCEPT ![r] =
                            [l1 EXCEPT !.result =
                               index_not_found(l.location_query, l.units, time)]]
               /\ pc' = [pc EXCEPT ![r] = "done"]
               /\ UNCHANGED <<cache, verCtr, lastFetch>>
        ELSE LET geo == out.value
                 lat == geo.items.latitude
                 lon == geo.items.longitude
                 args == <<lat, lon, l.units>>
                 mv == memoize_version(cache, time, verCtr)
                 key == make_cache_key(mv.version, lat, lon, l.units)
                 rv == SimpleCacheGet(mv.cache, key, time)
                 l2 == [l1 EXCEPT !.geo = geo, !.args = args, !.cache_key = key,
                                  !.wxInvoked = 1, !.callTime = time,
                                  !.prev = IF args \in DOMAIN lastFetch
                                             THEN lastFetch[args] ELSE None]
             IN /\ cache' = mv.cache
                /\ verCtr' = mv.drawn
                /\ IF rv # None
                     THEN /\ loc' = [loc EXCEPT ![r] =
                                       [l2 EXCEPT !.wxOut = Return(rv),
                                                  !.returnTime = time,
                                                  !.result = index_after_weather(
                                                     l.location_query, l.units, geo, rv, time)]]
                          /\ pc' = [pc EXCEPT ![r] = "done"]
                          /\ lastFetch' =
                               IF args \in DOMAIN lastFetch
                                 THEN [lastFetch EXCEPT ![args].hits = @ + 1]
                                 ELSE lastFetch
                     ELSE /\ loc' = [loc EXCEPT ![r] =
                                       [l2 EXCEPT !.wxCalls = 1,
                                                  !.wxParams = WeatherParams(lat, lon, l.units)]]
                          /\ pc' = [pc EXCEPT ![r] = "fetch"]
                          /\ UNCHANGED lastFetch
  /\ UNCHANGED <<time, served>>

\* Lines 97-101, the wrapper's cache.set, and lines 116-138: the weather
\* service answers; whatever get_weather_data returns (None included) is
\* stored under the key built before the call, and returned to index.
WeatherResponse(r, answer) ==
  /\ pc[r] = "fetch"
  /\ LET l == loc[r]
         resp == WeatherResponseTo(l.wxParams, time, answer)
         out == get_weather_data(resp)
     IN IF out.raised
          THEN /\ loc' = [loc EXCEPT ![r] =
                            [l EXCEPT !.wxOut = out, !.returnTime = time, !.result = out]]
               /\ UNCHANGED <<cache, lastFetch>>
          ELSE /\ cache' = SimpleCacheSet(cache, l.cache_key, out.value, time)
               /\ lastFetch' =
                    [a \in DOMAIN lastFetch \cup {l.args} |->
                       IF a = l.args
                         THEN [t |-> time, rv |-> out.value, hits |-> 0]
                         ELSE lastFetch[a]]
               /\ loc' = [loc EXCEPT ![r] =
                            [l EXCEPT !.wxOut = out, !.returnTime = time,
                                      !.result = index_after_weather(
                                         l.location_query, l.units, l.geo, out.value, time)]]
  /\ pc' = [pc EXCEPT ![r] = "done"]
  /\ UNCHANGED <<time, verCtr, served>>

\* Time passes (up to maxTime in the model).
Tick(d, maxTime) ==
  /\ time + d <= maxTime
  /\ time' = time + d
  /\ UNCHANGED <<cache, verCtr, pc, loc, lastFetch, served>>

\* One step of the system with W the workers in use, the requests drawn
\* from Q x U, the geocoding answers from G and the forecast bodies from F.
Step(W, Q, U, G, F, maxRequests, maxTime) ==
  \/ \E r \in W, q \in Q, u \in U : Request(r, q, u, maxRequests)
  \/ \E r \in W, resp \in G : GeocodeResponse(r, resp)
  \/ \E r \in W, answer \in WeatherAnswers(F) : WeatherResponse(r, answer)
  \/ \E d \in TickSteps : Tick(d, maxTime)

(***************************************************************************)
(* Spec: requests served concurrently by the workers; they geocode to one  *)
(* of two places, one of them under two display names, or to none, and the *)
(* weather service answers with a full forecast or fails.                  *)
(***************************************************************************)
CoreLocationParams == {None, Str("Paris")}
CoreGeoResponses ==
  {HTTPError, Body([results |-> <<ParisFull>>]), Body([results |-> <<ParisNoAdmin>>]),
   Body([results |-> <<LyonFull>>])}
CoreForecastShapes ==
  {[timezone |-> "Europe/Paris", current_weather |-> CurrentWeather, daily |-> Daily]}

Next == Step(Workers, CoreLocationParams, UnitsParams, CoreGeoResponses,
             CoreForecastShapes, MaxRequests, MaxTime)

Spec == Init /\ [][Next]_vars

(***************************************************************************)
(* SpecRequest: requests served one after the other, with every request    *)
(* and every answer of the two services the model knows.                   *)
(***************************************************************************)
NextRequest == Step({1}, LocationParams, UnitsParams, GeoResponses, ForecastShapes,
                    MaxRequests, MaxTime)

SpecRequest == Init /\ [][NextRequest]_vars

(***************************************************************************)
(* SpecCache: calls of get_weather_data made one after the other by        *)
(* requests that geocode to one of two places, over a longer time.         *)
(***************************************************************************)
CacheLocationParams == {Str("Paris")}
CacheGeoResponses == {Body([results |-> <<ParisFull>>]), Body([results |-> <<LyonFull>>])}
CacheForecastShapes ==
  {[timezone |-> "Europe/Paris", current_weather |-> CurrentWeather, daily |-> Daily]}

NextCache == Step({1}, CacheLocationParams, UnitsParams, CacheGeoResponses,
                  CacheForecastShapes, MaxCalls, MaxCacheTime)

SpecCache == Init /\ [][NextCache]_vars

(***************************************************************************)
(* Properties.                                                             *)
(***************************************************************************)
\* The request of worker r has been handled: index returned or raised.
Done(r) == pc[r] = "done"

\* index returned a page for the request of worker r.
Rendered(r) == Done(r) /\ ~loc[r].result.raised

\* The request of worker r called get_weather_data.
CalledWeather(r) == loc[r].wxInvoked = 1

\* C1: if two calls of get_weather_data have identical (lat, lon, units) and
\* the second happens less than 300 seconds after the first obtained its
\* result from the weather service, the second makes no outbound call and
\* returns the result the first obtained, whatever that result was.
C1_SecondCallServedFromCache ==
  \A r \in Workers :
    (/\ CalledWeather(r)
     /\ loc[r].prev # None
     /\ loc[r].callTime - loc[r].prev.t < 300)
    => /\ loc[r].wxCalls = 0
       /\ Done(r) => loc[r].wxOut = Return(loc[r].prev.rv)

\* C2: a cached forecast expires 300 seconds after it was fetched, however
\* many hits were served in between: a call with the same (lat, lon, units)
\* made 300 seconds or more after the last fetch makes an outbound call, and
\* no call returns a payload fetched more than 300 seconds earlier.
C2_FixedExpiry ==
  \A r \in Workers :
    CalledWeather(r) =>
      /\ (loc[r].prev # None /\ loc[r].callTime >= loc[r].prev.t + 300)
           => loc[r].wxCalls = 1
      /\ (Done(r) /\ ~loc[r].wxOut.raised /\ loc[r].wxOut.value # None)
           => /\ loc[r].returnTime - loc[r].wxOut.value.origin.at <= 300
              /\ loc[r].wxCalls = 0
                   => loc[r].callTime - loc[r].wxOut.value.origin.at < 300

\* A forecast was fetched, served from the cache at least once, and 300
\* seconds or more after the fetch a call with the same arguments made a
\* fresh outbound call.
C2_Witness ==
  \E r \in Workers :
    /\ Done(r) /\ CalledWeather(r)
    /\ loc[r].prev # None
    /\ loc[r].prev.rv # None
    /\ loc[r].prev.hits > 0
    /\ loc[r].callTime >= loc[r].prev.t + 300
    /\ loc[r].wxCalls = 1

\* C3: the page always renders: whatever the two upstream services answer,
\* index reaches the render and returns a page; no exception escapes index.
C3_PageAlwaysRenders ==
  \A r \in Workers : Done(r) => ~loc[r].result.raised

IsLocation(v) ==
  /\ v.py = "dict"
  /\ DOMAIN v.items = {"latitude", "longitude", "location_name"}

\* C4: geocode_city is total: for every answer of the geocoding service it
\* returns a Location or None and never raises; an answer with an empty
\* results list, or without a results field, yields None.
C4_GeocodeTotal ==
  \A r \in Workers :
    loc[r].geoResp # None =>
      /\ ~loc[r].geoOut.raised
      /\ loc[r].geoOut.value = None \/ IsLocation(loc[r].geoOut.value)
      /\ loc[r].geoResp \in {Body([results |-> <<>>]), Body([generationtime_ms |-> 1])}
           => loc[r].geoOut.value = None

\* The geocoding service answered with an empty results list and
\* geocode_city returned None.
C4_Witness ==
  \E r \in Workers :
    /\ loc[r].geoResp = Body([results |-> <<>>])
    /\ loc[r].geoOut = Return(None)

\* The first result of a decoded geocoding answer that has the fields every
\* result carries (name, latitude, longitude).
HasFirstResult(resp) ==
  /\ resp # None
  /\ resp.kind = "OK"
  /\ resp.decodable
  /\ "results" \in DOMAIN resp.json
  /\ Len(resp.json.results) > 0
  /\ {"name", "latitude", "longitude"} \subseteq DOMAIN resp.json.results[1]

\* C5: when the first result has an admin1 label the result of geocode_city
\* is a Location whose display name is "<name>, <admin1>", whatever the other
\* optional fields of the result; without admin1 but with a country it is
\* "<name>, <country>".
C5_DisplayName ==
  \A r \in Workers :
    HasFirstResult(loc[r].geoResp) =>
      LET result == loc[r].geoResp.json.results[1]
      IN /\ "admin1" \in DOMAIN result =>
              loc[r].geoOut =
                Return(Location(result.latitude, result.longitude,
                                result.name \o ", " \o result.admin1))
         /\ ("admin1" \notin DOMAIN result /\ "country" \in DOMAIN result) =>
              loc[r].geoOut =
                Return(Location(result.latitude, result.longitude,
                                result.name \o ", " \o result.country))

\* C6: a request with no location parameter, or an empty one, goes from the
\* parse to the render: no geocoding call, no weather call, and a page with
\* weather_data = None and error = None.
C6_NoLocationSkipsToRender ==
  \A r \in Workers :
    (pc[r] # "idle" /\ loc[r].location_query \in {None, Str("")})
    => /\ Rendered(r)
       /\ loc[r].geoCalls = 0
       /\ loc[r].wxInvoked = 0
       /\ loc[r].wxCalls = 0
       /\ loc[r].result.value.weather_data = None
       /\ loc[r].result.value.error = None

\* A request with an empty location parameter was rendered.
C6_Witness ==
  \E r \in Workers :
    /\ Rendered(r)
    /\ loc[r].location_query = Str("")
    /\ loc[r].geoCalls = 0

\* The message of line 121 for the queries of the model.
NotFoundMessage(q) ==
  CASE q = Str("Paris") -> Str("Could not find 'Paris'. Try another city.")
    [] q = Str("Nowhereville") -> Str("Could not find 'Nowhereville'. Try another city.")

\* C7: when the location is not empty and geocode_city returns None, index
\* renders with error "Could not find '<query>'. Try another city." and
\* weather_data = None, and get_weather_data is not called.
C7_NotFound ==
  \A r \in Workers :
    (/\ Done(r)
     /\ Truthy(loc[r].location_query)
     /\ loc[r].geoOut = Return(None))
    => /\ Rendered(r)
       /\ loc[r].result.value.error = NotFoundMessage(loc[r].location_query)
       /\ loc[r].result.value.weather_data = None
       /\ loc[r].wxInvoked = 0
       /\ loc[r].wxCalls = 0

\* The query Nowhereville was not found and the page says so.
C7_Witness ==
  \E r \in Workers :
    /\ Rendered(r)
    /\ loc[r].location_query = Str("Nowhereville")
    /\ loc[r].geoCalls = 1
    /\ loc[r].geoOut = Return(None)
    /\ loc[r].result.value.error =
         Str("Could not find 'Nowhereville'. Try another city.")

\* The message of line 119 for the display names of the model.
NoWeatherMessage(location_name) ==
  CASE location_name = "Paris, Ile-de-France"
         -> Str("Could not fetch weather for 'Paris, Ile-de-France'.")
    [] location_name = "Paris, France"
         -> Str("Could not fetch weather for 'Paris, France'.")
    [] location_name = "Lyon, Auvergne-Rhone-Alpes"
         -> Str("Could not fetch weather for 'Lyon, Auvergne-Rhone-Alpes'.")

\* C8: when geocoding succeeds and get_weather_data returns no usable
\* forecast (a falsy value), index renders with error "Could not fetch
\* weather for '<display name>'." and weather_data, current and daily are
\* all None in the render context.
C8_WeatherUnavailable ==
  \A r \in Workers :
    (/\ Done(r)
     /\ CalledWeather(r)
     /\ ~loc[r].wxOut.raised
     /\ ~Truthy(loc[r].wxOut.value))
    => /\ Rendered(r)
       /\ loc[r].result.value.error = NoWeatherMessage(loc[r].geo.items.location_name)
       /\ loc[r].result.value.weather_data = None
       /\ loc[r].result.value.current = None
       /\ loc[r].result.value.daily = None

\* C9: get_weather_data never raises: on a hit and on a miss, whatever the
\* weather service answers, it returns a forecast payload or None.
C9_WeatherNeverRaises ==
  \A r \in Workers :
    (Done(r) /\ CalledWeather(r))
    => /\ ~loc[r].wxOut.raised
       /\ loc[r].wxOut.value = None \/ loc[r].wxOut.value.py = "dict"

\* An outbound weather call failed and get_weather_data returned None.
C9_Witness ==
  \E r \in Workers :
    /\ Done(r)
    /\ loc[r].wxCalls = 1
    /\ loc[r].wxOut = Return(None)

\* The units a request asks for: its units parameter, "metric" without one.
AskedUnits(r) ==
  IF loc[r].unitsParam = None THEN "metric" ELSE loc[r].unitsParam.s

\* C10: the units value is passed through unchanged: the units of the
\* render context, the units component of the cache key and the
\* temperature_unit of the outbound weather call all equal the request's
\* units parameter, or "metric" when the parameter is missing.
C10_UnitsVerbatim ==
  \A r \in Workers :
    pc[r] # "idle" =>
      /\ Rendered(r) => loc[r].result.value.units = AskedUnits(r)
      /\ CalledWeather(r) =>
           /\ loc[r].cache_key[5] = AskedUnits(r)
           /\ loc[r].args[3] = AskedUnits(r)
      /\ loc[r].wxCalls = 1 => loc[r].wxParams.temperature_unit = AskedUnits(r)

\* A request asking for fahrenheit made an outbound weather call and was
\* rendered.
C10_Witness ==
  \E r \in Workers :
    /\ Rendered(r)
    /\ loc[r].unitsParam = Str("fahrenheit")
    /\ loc[r].wxCalls = 1
    /\ loc[r].wxParams.temperature_unit = "fahrenheit"
    /\ loc[r].result.value.units = "fahrenheit"

\* C12: under any interleaving of the requests, a payload returned by
\* get_weather_data was fetched by an outbound call made with exactly the
\* caller's latitude, longitude and units, no later than the return and
\* within the expiry window before it; every stored payload was fetched for
\* the coordinates and units of its key and is stored whole, with the expiry
\* of the set that wrote it.  Concurrent misses on one key may each go
\* outbound.
C12_PayloadOfOwnKey ==
  /\ \A r \in Workers :
       (/\ Done(r) /\ CalledWeather(r)
        /\ ~loc[r].wxOut.raised
        /\ loc[r].wxOut.value.py = "dict") =>
         /\ loc[r].wxOut.value.origin.params =
              WeatherParams(loc[r].args[1], loc[r].args[2], loc[r].args[3])
         /\ loc[r].wxOut.value.origin.at <= loc[r].returnTime
         /\ loc[r].returnTime - loc[r].wxOut.value.origin.at <= CACHE_DEFAULT_TIMEOUT
  /\ \A k \in DOMAIN cache :
       cache[k].value.py = "dict" =>
         /\ cache[k].value.origin.params = WeatherParams(k[3], k[4], k[5])
         /\ cache[k].expires = cache[k].value.origin.at + CACHE_DEFAULT_TIMEOUT

\* Two requests missed on the same key, neither looking it up after the other
\* had stored a result (a payload stored by then would have been a hit):
\* both went outbound, both got a payload, and the entry of the key holds
\* the payload of one of them.
C12_Witness ==
  \E r1, r2 \in Workers :
    /\ r1 # r2
    /\ Done(r1) /\ Done(r2)
    /\ loc[r1].cache_key = loc[r2].cache_key
    /\ loc[r1].wxCalls = 1 /\ loc[r2].wxCalls = 1
    /\ loc[r2].callTime <= loc[r1].returnTime
    /\ loc[r1].callTime <= loc[r2].returnTime
    /\ loc[r1].wxOut.value.py = "dict" /\ loc[r2].wxOut.value.py = "dict"
    /\ loc[r1].wxOut # loc[r2].wxOut
    /\ loc[r1].cache_key \in DOMAIN cache
    /\ cache[loc[r1].cache_key].value = loc[r2].wxOut.value

\* C13: within one request the outbound calls are ordered and made once: a
\* request with a non-empty location makes exactly one geocoding call, also
\* when the forecast then comes from the cache; while that call is
\* outstanding no weather call has been made; get_weather_data is called,
\* and an outbound weather call made, only once the geocoding service has
\* answered with a result and geocode_city has returned a Location; there is
\* at most one outbound weather call, and a request whose geocoding or
\* weather call failed ends with one call of each kind at most.
C13_OneAttemptInOrder ==
  \A r \in Workers :
    (pc[r] # "idle" /\ Truthy(loc[r].location_query)) =>
      /\ loc[r].geoCalls = 1
      /\ loc[r].wxCalls <= 1
      /\ pc[r] = "geocode" =>
           /\ loc[r].geoResp = None
           /\ loc[r].wxInvoked = 0
           /\ loc[r].wxCalls = 0
      /\ loc[r].wxCalls = 1 => loc[r].wxInvoked = 1
      /\ loc[r].wxInvoked = 1 =>
           /\ HasFirstResult(loc[r].geoResp)
           /\ ~loc[r].geoOut.raised
           /\ IsLocation(loc[r].geoOut.value)
      /\ (Done(r) /\ loc[r].geoOut = Return(None)) =>
           /\ loc[r].wxInvoked = 0
           /\ loc[r].wxCalls = 0

\* A request geocoded its location with one call and was then served the
\* forecast from the cache, without an outbound weather call.
C13_Witness ==
  \E r \in Workers :
    /\ Rendered(r)
    /\ Truthy(loc[r].location_query)
    /\ loc[r].geoCalls = 1
    /\ IsLocation(loc[r].geoOut.value)
    /\ loc[r].wxInvoked = 1
    /\ loc[r].wxCalls = 0
    /\ Truthy(loc[r].result.value.weather_data)

\* C14: on a rendered page now is taken in the forecast's timezone exactly
\* when get_weather_data returned a forecast that has a timezone field, and
\* is the server's local time in every other case: no location, no geocoding
\* result, no forecast, a forecast without a timezone field.
C14_DisplayTimeZone ==
  \A r \in Workers :
    Rendered(r) =>
      LET zoned == /\ CalledWeather(r)
                   /\ ~loc[r].wxOut.raised
                   /\ loc[r].wxOut.value.py = "dict"
                   /\ "timezone" \in DOMAIN loc[r].wxOut.value.items
      IN /\ zoned => loc[r].result.value.now.zone = loc[r].wxOut.value.items.timezone
         /\ ~zoned => loc[r].result.value.now.zone = ServerLocal

\* A forecast with the timezone Europe/Paris was rendered with now taken in
\* that zone.
C14_Witness ==
  \E r \in Workers :
    /\ Rendered(r)
    /\ CalledWeather(r)
    /\ loc[r].wxOut.value.py = "dict"
    /\ "timezone" \in DOMAIN loc[r].wxOut.value.items
    /\ loc[r].wxOut.value.items.timezone = "Europe/Paris"
    /\ loc[r].result.value.now.zone = "Europe/Paris"

\* C15: in the render context of every rendered request, whatever the two
\* services answered (an empty forecast payload included): weather_data and
\* error are not both present; when the location query is not empty exactly
\* one of them is present; current and daily are present exactly when
\* weather_data is.  Present means: not None.
C15_RenderContext ==
  \A r \in Workers :
    Rendered(r) =>
      LET ctx == loc[r].result.value
      IN /\ ~(ctx.weather_data # None /\ ctx.error # None)
         /\ Truthy(loc[r].location_query) =>
              (ctx.weather_data # None) # (ctx.error # None)
         /\ (ctx.current # None) = (ctx.weather_data # None)
         /\ (ctx.daily # None) = (ctx.weather_data # None)

\* C16: every step of a request that does not reach the weather fetch (its
\* location is missing or empty, its geocoding call is outstanding, or
\* geocode_city returned None) leaves the cache as it was, entry for entry,
\* and draws no version hash; the history of fetches and the clock are left
\* alone as well.
C16_NoFetchLeavesCache ==
  [][\A r \in Workers :
       (/\ loc'[r] # loc[r]
        /\ \/ loc'[r].location_query \in {None, Str("")}
           \/ pc'[r] = "geocode"
           \/ loc'[r].geoOut = Return(None))
       => /\ cache' = cache
          /\ verCtr' = verCtr
          /\ lastFetch' = lastFetch
          /\ time' = time]_vars

\* A request whose location was not found has been handled while the cache
\* holds a forecast an earlier request fetched, unchanged.
C16_Witness ==
  \E r \in Workers :
    /\ Done(r)
    /\ Truthy(loc[r].location_query)
    /\ loc[r].geoOut = Return(None)
    /\ loc[r].wxInvoked = 0
    /\ \E a \in DOMAIN lastFetch :
         \E k \in DOMAIN cache :
           /\ lastFetch[a].rv.py = "dict"
           /\ k # MemVerKey
           /\ <<k[3], k[4], k[5]>> = a
           /\ cache[k].value = lastFetch[a].rv
           /\ cache[k].expires = lastFetch[a].t + CACHE_DEFAULT_TIMEOUT

====
